---- MODULE Spec2Model ----
(***************************************************************************)
(* bighead: largest-face detection facade (bighead/face_detection.py) and  *)
(* its one-route Flask front end (bighead/web.py).                         *)
(*                                                                         *)
(* Every Python function is an operator that returns an outcome record     *)
(*   [kind, val, exc, files, trace, ...]                                   *)
(* kind is "return" or "raise"; val and exc are optional values (<<>> is   *)
(* None, <<x>> is x); files is the filesystem the call leaves behind;      *)
(* trace is the sequence of external calls the function made.  The         *)
(* external collaborators (disk writes, HTTP fetch, dlib's detector) are   *)
(* an environment record env whose fields the actions choose freely.       *)
(***************************************************************************)
EXTENDS Integers, Sequences, FiniteSets, TLC

VARIABLES pc, call, result, files

vars == <<pc, call, result, files>>

----------------------------------------------------------------------------
(* Bounds of the model.                                                    *)

MaxRects == 2      \* most rectangles in one detector output
MaxTmp == 1        \* most temporary files that may be left on disk
MaxArgLen == 2     \* longest upsample query string

----------------------------------------------------------------------------
(* Values.                                                                 *)

None == <<>>

Some(x) == <<x>>

Optional(S) == {None} \cup {Some(x) : x \in S}

\* numpy array, known by its shape (height, width, channels)
Image(h, w) == [shape |-> <<h, w, 3>>]

\* dlib.rectangle(left, top, right, bottom)
Rect(l, t, r, b) == [left |-> l, top |-> t, right |-> r, bottom |-> b]

\* a bytes object: its length and what dlib.load_rgb_image makes of it
Bytes(n, img) == [len |-> n, decodes |-> img]

EmptyBytes == Bytes(0, None)

BadBytes == Bytes(11, None)

JpegOf(img) == Bytes(img.shape[1] * img.shape[2], Some(img))

Images ==
    { Image(1, 2), Image(4, 4), Image(1024, 1024), Image(2000, 100),
      Image(1025, 1024), Image(1024, 1025) }

DataSet == { BadBytes, JpegOf(Image(1, 2)), JpegOf(Image(1025, 1024)) }

Paths == { "missing.jpg", "one.jpg" }

Urls == { "http://example.com" }

Upsamples == 0 .. 1

\* files of the user that exist before any call
DiskFiles == ("one.jpg" :> JpegOf(Image(2, 1))) @@ ("bad.jpg" :> BadBytes)

\* names mkstemp hands out
TmpNames == << "/tmp/tmp1", "/tmp/tmp2", "/tmp/tmp3", "/tmp/tmp4" >>

TmpPaths == { TmpNames[i] : i \in DOMAIN TmpNames }

TempFiles(fs) == DOMAIN fs \cap TmpPaths

\* rectangles the detector may report; dlib reports a face that is partly
\* outside the image with coordinates outside the image (a negative left)
FaceSizes == { << 1, 4 >>, << 2, 2 >> }

Faces ==
    { Rect(l, t, l + wh[1], t + wh[2]) :
          l \in {-1, 0}, t \in {0, 1}, wh \in FaceSizes }

SeqsUpTo(S, n) == UNION { [1 .. k -> S] : k \in 0 .. n }

Detections == SeqsUpTo(Faces, MaxRects)

HttpStatuses == { 200, 404 }

\* what the environment answers during one call: whether the write to the
\* temporary file succeeds, the status and the content of the HTTP response,
\* the rectangles of the detector
Env(writes, statuses, contents, detections) ==
    [ write_ok : writes, status : statuses, content : contents,
      rects : detections ]

\* the answers a call can consume: no fetch unless a URL is read, no write
\* unless bytes are read, no detection unless the detector is reached
NoFetch(detections) == Env(BOOLEAN, {200}, {BadBytes}, detections)

NoWrite(detections) == Env({TRUE}, {200}, {BadBytes}, detections)

Fetch(detections) == Env(BOOLEAN, HttpStatuses, DataSet, detections)

----------------------------------------------------------------------------
(* Outcomes.                                                               *)

Exc(type, dims, msg) == [type |-> type, dims |-> dims, msg |-> msg]

Return(v, fs, tr) ==
    [kind |-> "return", val |-> v, exc |-> None, files |-> fs, trace |-> tr]

Raise(e, fs, tr) ==
    [kind |-> "raise", val |-> None, exc |-> Some(e), files |-> fs, trace |-> tr]

Raised(res, type) == res.kind = "raise" /\ res.exc[1].type = type

\* Body of the value of an expression, which is evaluated once: a local
\* variable that holds the result of a call
With(value, Body(_)) == CHOOSE y \in { Body(x) : x \in {value} } : TRUE

----------------------------------------------------------------------------
(* str() of a non-negative int and of a tuple of two ints.                 *)

Digits == << "0", "1", "2", "3", "4", "5", "6", "7", "8", "9" >>

RECURSIVE DecimalStr(_)
DecimalStr(n) ==
    IF n < 10 THEN << Digits[n + 1] >>
    ELSE DecimalStr(n \div 10) \o << Digits[(n % 10) + 1] >>

TupleStr(dims) ==
    << "(" >> \o DecimalStr(dims[1]) \o << ",", " " >> \o DecimalStr(dims[2])
        \o << ")" >>

----------------------------------------------------------------------------
(* face_detection.py                                                       *)

_MAX_PIXELS == 1024 * 1024

InvalidImage == Exc("InvalidImage", None, << "decode" >>)

TooLarge(image) ==
    LET dims == SubSeq(image.shape, 1, 2)
    IN  Exc("TooLarge", dims, << "Image is too large: " >> \o TupleStr(dims))

\* mutant: "either dimension exceeding 1024" (the TODO of the docstring)
_is_too_large_by_side(image) ==
    image.shape[1] > 1024 \/ image.shape[2] > 1024

_is_too_large(image) ==
    LET pixels == image.shape[1] * image.shape[2]
    IN  pixels > _MAX_PIXELS

_load_from_path(path, fs) ==
    IF path \notin DOMAIN fs
    THEN Raise(Exc("FileNotFoundError", None, << path >>), fs, << "isfile" >>)
    ELSE IF fs[path].decodes = None
         THEN Raise(InvalidImage, fs, << "isfile", "load_rgb_image" >>)
         ELSE Return(Some(fs[path].decodes[1]), fs,
                     << "isfile", "load_rgb_image" >>)

mkstemp(fs) ==
    LET i == CHOOSE k \in DOMAIN TmpNames :
                 /\ TmpNames[k] \notin DOMAIN fs
                 /\ \A j \in 1 .. k - 1 : TmpNames[j] \in DOMAIN fs
    IN  TmpNames[i]

remove(path, fs) == [p \in DOMAIN fs \ {path} |-> fs[p]]

_load_from_data(data, env, fs) ==
    With(mkstemp(fs), LAMBDA path :
    With(fs @@ (path :> EmptyBytes), LAMBDA created :
        IF ~env.write_ok
        THEN Raise(Exc("OSError", None, << "write" >>), created,
                   << "mkstemp", "write" >>)
        ELSE With(_load_from_path(path, [created EXCEPT ![path] = data]),
                  LAMBDA res :
                 [res EXCEPT !.files = remove(path, res.files),
                             !.trace = << "mkstemp", "write" >> \o res.trace
                                           \o << "remove" >>])))

_load_from_url(url, env, fs) ==
    IF env.status >= 400 /\ env.status < 600
    THEN Raise(Exc("HTTPError", None, << "status" >>), fs, << "requests.get" >>)
    ELSE With(_load_from_data(env.content, env, fs), LAMBDA res :
             [res EXCEPT !.trace = << "requests.get" >> \o res.trace])

\* mutant: the decoded image is tried before the bytes
_load_image_image_first(kw, env, fs) ==
    IF kw.image # None THEN Return(kw.image, fs, << >>)
    ELSE IF kw.data # None THEN _load_from_data(kw.data[1], env, fs)
    ELSE IF kw.path # None THEN _load_from_path(kw.path[1], fs)
    ELSE IF kw.url # None THEN _load_from_url(kw.url[1], env, fs)
    ELSE Raise(Exc("ValueError", None,
                   << "Must supply one of data, image, path, or url" >>),
               fs, << >>)

_load_image(kw, env, fs) ==
    IF kw.data # None THEN _load_from_data(kw.data[1], env, fs)
    ELSE IF kw.image # None THEN Return(kw.image, fs, << >>)
    ELSE IF kw.path # None THEN _load_from_path(kw.path[1], fs)
    ELSE IF kw.url # None THEN _load_from_url(kw.url[1], env, fs)
    ELSE Raise(Exc("ValueError", None,
                   << "Must supply one of data, image, path, or url" >>),
               fs, << >>)

\* dlib.rectangle.area(): the number of pixels of a rectangle whose right
\* and bottom edges are inclusive; an empty rectangle has area 0
area(r) ==
    IF r.top > r.bottom \/ r.left > r.right THEN 0
    ELSE (r.right - r.left + 1) * (r.bottom - r.top + 1)

RECURSIVE MaxFrom(_, _, _)
MaxFrom(rects, i, best) ==
    IF i > Len(rects) THEN best
    ELSE MaxFrom(rects, i + 1,
                 IF area(rects[i]) > area(best) THEN rects[i] ELSE best)

\* mutant: the last item with the largest key
RECURSIVE MaxFromLast(_, _, _)
MaxFromLast(rects, i, best) ==
    IF i > Len(rects) THEN best
    ELSE MaxFromLast(rects, i + 1,
                     IF area(rects[i]) >= area(best) THEN rects[i] ELSE best)

max_last(rects) == MaxFromLast(rects, 2, rects[1])

\* max(rects, key=lambda r: r.area()): the first item with the largest key
max(rects) == MaxFrom(rects, 2, rects[1])

\* mutant: no test for "no detections"; max() of an empty sequence raises
_get_bounding_box_unguarded(image, upsample, env, fs) ==
    LET rects == env.rects
    IN  IF rects = << >>
        THEN Raise(Exc("ValueError", None,
                       << "max() arg is an empty sequence" >>),
                   fs, << "detector" >>) @@ [detected |-> Some(rects)]
        ELSE Return(Some(max(rects)), fs, << "detector" >>)
                 @@ [detected |-> Some(rects)]

\* _FACE_DETECTOR(image, upsample) answers env.rects
_get_bounding_box(image, upsample, env, fs) ==
    LET rects == env.rects
    IN  Return(IF rects = << >> THEN None ELSE Some(max(rects)),
               fs, << "detector" >>) @@ [detected |-> Some(rects)]

\* a[start:stop] on an axis of n items: the number of items of the slice
SliceLen(start, stop, n) ==
    LET clip(i) == IF i < 0 THEN (IF i + n < 0 THEN 0 ELSE i + n)
                   ELSE (IF i > n THEN n ELSE i)
        len == clip(stop) - clip(start)
    IN  IF len < 0 THEN 0 ELSE len

_crop(image, rect) ==
    LET top == rect.top
        bottom == rect.bottom
        left == rect.left
        right == rect.right
    IN  [shape |-> << SliceLen(top, bottom, image.shape[1]),
                      SliceLen(left, right, image.shape[2]),
                      image.shape[3] >>]

\* the outcome of an entry point also tells what was loaded and detected
Facade(res, loaded, detected) ==
    With(res, LAMBDA r :
        [ kind |-> r.kind, val |-> r.val, exc |-> r.exc,
          files |-> r.files, trace |-> r.trace,
          loaded |-> loaded, detected |-> detected ])

\* mutant: the detector runs before the size guard
find_biggest_face_detect_first(kw, upsample, env, fs) ==
    With(_load_image(kw, env, fs), LAMBDA ld :
        IF ld.kind = "raise" THEN Facade(ld, None, None)
        ELSE With(ld.val[1], LAMBDA to_search :
             With(_get_bounding_box(to_search, upsample, env, ld.files),
                  LAMBDA bb :
                 IF _is_too_large(to_search)
                 THEN Facade(Raise(TooLarge(to_search), ld.files,
                                   ld.trace \o bb.trace),
                             ld.val, None)
                 ELSE Facade([bb EXCEPT !.trace = ld.trace \o bb.trace],
                             ld.val, bb.detected))))

find_biggest_face(kw, upsample, env, fs) ==
    With(_load_image(kw, env, fs), LAMBDA ld :
        IF ld.kind = "raise" THEN Facade(ld, None, None)
        ELSE With(ld.val[1], LAMBDA to_search :
             IF _is_too_large(to_search)
             THEN Facade(Raise(TooLarge(to_search), ld.files, ld.trace),
                         ld.val, None)
             ELSE With(_get_bounding_box(to_search, upsample, env, ld.files),
                       LAMBDA bb :
                      Facade([bb EXCEPT !.trace = ld.trace \o bb.trace],
                             ld.val, bb.detected))))

extract_biggest_face(kw, upsample, env, fs) ==
    With(_load_image(kw, env, fs), LAMBDA ld :
        IF ld.kind = "raise" THEN Facade(ld, None, None)
        ELSE With(ld.val[1], LAMBDA to_search :
             IF _is_too_large(to_search)
             THEN Facade(Raise(TooLarge(to_search), ld.files, ld.trace),
                         ld.val, None)
             ELSE With(_get_bounding_box(to_search, upsample, env, ld.files),
                       LAMBDA bb :
                      LET box == bb.val
                          tr == ld.trace \o bb.trace
                      IN  IF bb.kind = "raise"
                          THEN Facade([bb EXCEPT !.trace = tr],
                                      ld.val, bb.detected)
                          ELSE IF box = None
                          THEN Facade(Return(None, bb.files, tr),
                                      ld.val, bb.detected)
                          ELSE Facade(Return(Some(_crop(to_search, box[1])),
                                             bb.files, tr),
                                      ld.val, bb.detected))))

----------------------------------------------------------------------------
(* int(str): optional surrounding blanks, an optional sign, then decimal   *)
(* digits that single underscores may separate.                            *)

IsDigit(c) == \E i \in DOMAIN Digits : Digits[i] = c

DigitVal(c) == (CHOOSE i \in DOMAIN Digits : Digits[i] = c) - 1

RECURSIVE Strip(_)
Strip(s) ==
    IF s = << >> THEN s
    ELSE IF Head(s) = " " THEN Strip(Tail(s))
    ELSE IF s[Len(s)] = " " THEN Strip(SubSeq(s, 1, Len(s) - 1))
    ELSE s

IsNumeral(s) ==
    /\ s # << >>
    /\ IsDigit(s[1])
    /\ IsDigit(s[Len(s)])
    /\ \A i \in DOMAIN s : IsDigit(s[i]) \/ s[i] = "_"
    /\ \A i \in 1 .. Len(s) - 1 : ~(s[i] = "_" /\ s[i + 1] = "_")

RECURSIVE NumeralVal(_, _)
NumeralVal(s, acc) ==
    IF s = << >> THEN acc
    ELSE IF Head(s) = "_" THEN NumeralVal(Tail(s), acc)
    ELSE NumeralVal(Tail(s), 10 * acc + DigitVal(Head(s)))

\* None when int(s) raises ValueError
int(s) ==
    LET t == Strip(s)
        signed == t # << >> /\ Head(t) \in { "+", "-" }
        body == IF signed THEN Tail(t) ELSE t
    IN  IF ~IsNumeral(body) THEN None
        ELSE IF signed /\ Head(t) = "-" THEN Some(0 - NumeralVal(body, 0))
        ELSE Some(NumeralVal(body, 0))

----------------------------------------------------------------------------
(* web.py                                                                  *)

codes_ok == 200
codes_bad == 400
codes_not_found == 404
codes_method_not_allowed == 405
codes_request_entity_too_large == 413
codes_unprocessable == 422
codes_server_error == 500

\* a JSON response: (dict, status); the dict is a function of its keys
EmptyDict == [k \in {} |-> None]

Json(dict, status) == [status |-> status, json |-> Some(dict)]

not_found == Json("error" :> << "Not found" >>, codes_not_found)

method_not_allowed ==
    Json("error" :> << "Method not allowed" >>, codes_method_not_allowed)

\* mutant: the response tells the fault
internal_server_error_detailed ==
    Json("error" :> << "OSError", "write" >>, codes_server_error)

internal_server_error ==
    Json("error" :> << "Internal server error" >>, codes_server_error)

_error(message, status) == Json("error" :> message, status)

\* mutant: the coordinates in the order of dlib.rectangle's arguments
_success_swapped(rect) ==
    IF rect = None THEN Json(EmptyDict, codes_ok)
    ELSE LET box == [ left |-> rect[1].left, right |-> rect[1].top,
                      top |-> rect[1].right, bottom |-> rect[1].bottom ]
         IN  Json("box" :> box, codes_ok)

_success(rect) ==
    IF rect = None THEN Json(EmptyDict, codes_ok)
    ELSE LET box == [ left |-> rect[1].left, right |-> rect[1].right,
                      top |-> rect[1].top, bottom |-> rect[1].bottom ]
         IN  Json("box" :> box, codes_ok)

\* the content types whose body werkzeug parses as a form
FormMimetypes == { "application/x-www-form-urlencoded", "multipart/form-data" }

\* request.data: the raw body, empty when the body was parsed as a form
request_data(req) ==
    IF req.content_type \in FormMimetypes THEN EmptyBytes ELSE req.body

\* mutant: the upsample argument is checked before the data
_preprocess_request_upsample_first(req, fs) ==
    LET upsample_arg == IF req.args = None THEN << "0" >> ELSE req.args[1]
        upsample == int(upsample_arg)
    IN  IF upsample = None
        THEN Raise(Exc("ValueError", None,
                       << "Invalid numeric value for upsample argument" >>),
                   fs, << >>)
        ELSE IF upsample[1] < 0
        THEN Raise(Exc("ValueError", None,
                       << "Value for upsample argument must be nonnegative" >>),
                   fs, << >>)
        ELSE IF request_data(req).len = 0
        THEN Raise(Exc("ValueError", None,
                       << "No data found, make sure to set Content-Type" >>),
                   fs, << >>)
        ELSE Return(Some(<< request_data(req), upsample[1] >>), fs, << >>)

\* request.args.get("upsample", "0") reads req.args
_preprocess_request(req, fs) ==
    IF request_data(req).len = 0
    THEN Raise(Exc("ValueError", None,
                   << "No data found, make sure to set Content-Type" >>),
               fs, << >>)
    ELSE LET upsample_arg == IF req.args = None THEN << "0" >> ELSE req.args[1]
             upsample == int(upsample_arg)
         IN  IF upsample = None
             THEN Raise(Exc("ValueError", None,
                            << "Invalid numeric value for upsample argument" >>),
                        fs, << >>)
             ELSE IF upsample[1] < 0
             THEN Raise(Exc("ValueError", None,
                            << "Value for upsample argument must be nonnegative" >>),
                        fs, << >>)
             ELSE Return(Some(<< request_data(req), upsample[1] >>), fs, << >>)

\* the outcome of a handler function also tells which call of the facade
\* it made and how that call ended
Handled(res, facade) ==
    With(res, LAMBDA r :
        [ kind |-> r.kind, val |-> r.val, exc |-> r.exc,
          files |-> r.files, trace |-> r.trace, facade |-> facade ])

\* mutant: no "except TooLarge"
_detect_uncaught(data, upsample, env, fs) ==
    With([data |-> Some(data), image |-> None, path |-> None, url |-> None],
         LAMBDA kw :
    With(find_biggest_face(kw, upsample, env, fs), LAMBDA res :
    With(Some([kw |-> kw, upsample |-> upsample, outcome |-> res]),
         LAMBDA made :
        IF Raised(res, "InvalidImage")
        THEN Handled(Return(Some(_error(<< "The image is invalid" >>,
                                        codes_unprocessable)),
                            res.files, res.trace), made)
        ELSE IF res.kind = "raise"
        THEN Handled(res, made)
        ELSE Handled(Return(Some(_success(res.val)), res.files, res.trace),
                     made))))

_detect(data, upsample, env, fs) ==
    With([data |-> Some(data), image |-> None, path |-> None, url |-> None],
         LAMBDA kw :
    With(find_biggest_face(kw, upsample, env, fs), LAMBDA res :
    With(Some([kw |-> kw, upsample |-> upsample, outcome |-> res]),
         LAMBDA made :
        IF Raised(res, "InvalidImage")
        THEN Handled(Return(Some(_error(<< "The image is invalid" >>,
                                        codes_unprocessable)),
                            res.files, res.trace), made)
        ELSE IF Raised(res, "TooLarge")
        THEN Handled(Return(Some(_error(res.exc[1].msg,
                                        codes_request_entity_too_large)),
                            res.files, res.trace), made)
        ELSE IF res.kind = "raise"
        THEN Handled(res, made)
        ELSE Handled(Return(Some(_success(res.val)), res.files, res.trace),
                     made))))

detect_largest_face(req, env, fs) ==
    With(_preprocess_request(req, fs), LAMBDA pre :
        IF Raised(pre, "ValueError")
        THEN Handled(Return(Some(_error(pre.exc[1].msg, codes_bad)),
                            fs, << >>), None)
                 @@ [validation |-> pre]
        ELSE _detect(pre.val[1][1], pre.val[1][2], env, fs)
                 @@ [validation |-> pre])

\* @app.route("/detect_largest_face", methods=["POST"]): Flask adds OPTIONS
\* to the methods of a rule that does not list it and answers it itself
RulePath == "/detect_largest_face"

RuleMethods == { "POST" } \cup { "OPTIONS" }

\* Flask: match the rule, run the view, hand the errors to the handlers
Dispatch(req, env, fs) ==
    IF req.path # RulePath
    THEN [response |-> not_found, view |-> None, files |-> fs]
    ELSE IF req.method \notin RuleMethods
    THEN [response |-> method_not_allowed, view |-> None, files |-> fs]
    ELSE IF req.method = "OPTIONS"
    THEN [response |-> [status |-> codes_ok, json |-> None], view |-> None,
          files |-> fs]
    ELSE With(detect_largest_face(req, env, fs), LAMBDA v :
             [ response |-> IF v.kind = "raise" THEN internal_server_error
                            ELSE v.val[1],
               view |-> Some(v), files |-> v.files ])

----------------------------------------------------------------------------
(* The state machine: one call at a time; the caller takes the outcome     *)
(* and the per-call values are discarded.                                  *)

NoCall == [op |-> "none"]

NoResult == [kind |-> "none"]

Kwargs ==
    [ data : Optional(DataSet), image : Optional(Images),
      path : Optional(Paths), url : Optional(Urls) ]

KwEnvs(kw, detections) ==
    IF kw.data # None THEN NoFetch(detections)
    ELSE IF kw.url # None /\ kw.image = None /\ kw.path = None
    THEN Fetch(detections)
    ELSE NoWrite(detections)

ArgChars == { "0", "1", "-", "+", " ", "_", "a" }

ArgStrings == SeqsUpTo(ArgChars, MaxArgLen)

Requests ==
    [ path : { RulePath, "/abcdef" },
      method : { "GET", "POST", "OPTIONS" },
      content_type : { "image/png", "application/x-www-form-urlencoded" },
      body : DataSet \cup {EmptyBytes},
      args : Optional(ArgStrings) ]

RequestEnvs(req) ==
    IF req.path = RulePath /\ req.method = "POST"
       /\ _preprocess_request(req, files).kind = "return"
    THEN NoFetch(Detections)
    ELSE NoWrite({<< >>})

Init ==
    /\ pc = "idle"
    /\ call = NoCall
    /\ result = NoResult
    /\ files = DiskFiles

Finish(op, args, res) ==
    /\ pc' = "done"
    /\ call' = [op |-> op, args |-> args]
    /\ result' = res
    /\ files' = res.files

CanMkstemp == Cardinality(TempFiles(files)) < MaxTmp

LoadImage ==
    /\ pc = "idle"
    /\ CanMkstemp
    /\ \E kw \in Kwargs :
       \E env \in KwEnvs(kw, {<< >>}) :
           Finish("_load_image", kw, _load_image(kw, env, files))

LoadFromData ==
    /\ pc = "idle"
    /\ CanMkstemp
    /\ \E data \in DataSet \cup {EmptyBytes}, env \in NoFetch({<< >>}) :
           Finish("_load_from_data", [data |-> data],
                  _load_from_data(data, env, files))

LoadFromPath ==
    /\ pc = "idle"
    /\ \E path \in Paths \cup {"bad.jpg"} :
           Finish("_load_from_path", [path |-> path],
                  _load_from_path(path, files))

LoadFromUrl ==
    /\ pc = "idle"
    /\ CanMkstemp
    /\ \E url \in Urls, env \in Fetch({<< >>}) :
           Finish("_load_from_url", [url |-> url],
                  _load_from_url(url, env, files))

IsTooLarge ==
    /\ pc = "idle"
    /\ \E image \in Images :
           Finish("_is_too_large", [image |-> image],
                  Return(Some(_is_too_large(image)), files, << >>))

GetBoundingBox ==
    /\ pc = "idle"
    /\ \E image \in Images, upsample \in Upsamples,
          env \in NoWrite(Detections) :
           Finish("_get_bounding_box",
                  [image |-> image, upsample |-> upsample],
                  _get_bounding_box(image, upsample, env, files))

Crop ==
    /\ pc = "idle"
    /\ \E image \in Images, rect \in Faces :
           Finish("_crop", [image |-> image, rect |-> rect],
                  Return(Some(_crop(image, rect)), files, << >>))

FindBiggestFace ==
    /\ pc = "idle"
    /\ CanMkstemp
    /\ \E kw \in Kwargs, upsample \in Upsamples :
       \E env \in KwEnvs(kw, Detections) :
           Finish("find_biggest_face", [kw |-> kw, upsample |-> upsample],
                  find_biggest_face(kw, upsample, env, files))

ExtractBiggestFace ==
    /\ pc = "idle"
    /\ CanMkstemp
    /\ \E kw \in Kwargs, upsample \in Upsamples :
       \E env \in KwEnvs(kw, Detections) :
           Finish("extract_biggest_face", [kw |-> kw, upsample |-> upsample],
                  extract_biggest_face(kw, upsample, env, files))

Detect ==
    /\ pc = "idle"
    /\ CanMkstemp
    /\ \E data \in DataSet, upsample \in Upsamples,
          env \in NoFetch(Detections) :
           Finish("_detect", [data |-> data, upsample |-> upsample],
                  _detect(data, upsample, env, files))

HttpRequest ==
    /\ pc = "idle"
    /\ CanMkstemp
    /\ \E req \in Requests :
       \E env \in RequestEnvs(req) :
           Finish("request", req, Dispatch(req, env, files))

\* the caller has taken the outcome; nothing of the call is kept
Discard ==
    /\ pc = "done"
    /\ pc' = "idle"
    /\ call' = NoCall
    /\ result' = NoResult
    /\ UNCHANGED files

Next ==
    \/ IsTooLarge
    \/ Crop
    \/ GetBoundingBox
    \/ LoadFromPath
    \/ HttpRequest
    \/ Detect
    \/ FindBiggestFace
    \/ ExtractBiggestFace
    \/ LoadFromData
    \/ LoadFromUrl
    \/ LoadImage
    \/ Discard

Spec == Init /\ [][Next]_vars

----------------------------------------------------------------------------
(* Properties.                                                             *)

IsDone(op) == pc = "done" /\ call.op = op

EntryPoints == { "find_biggest_face", "extract_biggest_face" }

(* C1: for both entry points and every loaded image of height H and width  *)
(* W, the call fails with TooLarge, carrying dims (H, W), if and only if   *)
(* H * W > 1,048,576; images such as 1024x1024 and 2000x100 never fail     *)
(* with TooLarge.                                                          *)
TooLargeIffMoreThanMaxPixels ==
    (pc = "done" /\ call.op \in EntryPoints /\ result.loaded # None) =>
        LET H == result.loaded[1].shape[1]
            W == result.loaded[1].shape[2]
        IN  /\ Raised(result, "TooLarge") <=> H * W > 1048576
            /\ Raised(result, "TooLarge") => result.exc[1].dims = << H, W >>
            /\ << H, W >> \in { << 1024, 1024 >>, << 2000, 100 >> }
                   => ~Raised(result, "TooLarge")

TooLargeWitness ==
    /\ IsDone("extract_biggest_face")
    /\ result.loaded = Some(Image(1025, 1024))
    /\ Raised(result, "TooLarge")
    /\ result.exc[1].dims = << 1025, 1024 >>

WidthTimesHeight(r) == (r.right - r.left) * (r.bottom - r.top)

InclusiveArea(r) == (r.right - r.left + 1) * (r.bottom - r.top + 1)

\* the first rectangle of the list among those of the largest area
FirstOfLargest(rects, Area(_)) ==
    rects[CHOOSE i \in DOMAIN rects :
              /\ \A j \in DOMAIN rects : Area(rects[j]) <= Area(rects[i])
              /\ \A j \in 1 .. i - 1 : Area(rects[j]) < Area(rects[i])]

Selects(Area(_)) ==
    /\ IsDone("_get_bounding_box") /\ result.detected[1] # << >>
           => result.val = Some(FirstOfLargest(result.detected[1], Area))
    /\ ( IsDone("find_biggest_face") /\ result.detected # None
         /\ result.detected # Some(<< >>) )
           => result.val = Some(FirstOfLargest(result.detected[1], Area))

(* C2, as stated: the selected box is the first rectangle of the           *)
(* detector's list among those whose area (right-left) x (bottom-top) is   *)
(* the largest.                                                            *)
SelectsFirstOfLargestWidthTimesHeight == Selects(WidthTimesHeight)

(* C2, amended: the selected box is the first rectangle of the detector's  *)
(* list among those whose area is the largest, the area being that of      *)
(* dlib, (right-left+1) x (bottom-top+1).                                  *)
SelectsFirstOfLargestInclusiveArea == Selects(InclusiveArea)

SelectsFirstOfTieWitness ==
    /\ IsDone("_get_bounding_box")
    /\ Len(result.detected[1]) = 2
    /\ result.detected[1][1] # result.detected[1][2]
    /\ InclusiveArea(result.detected[1][1]) = InclusiveArea(result.detected[1][2])
    /\ result.val = Some(result.detected[1][1])

(* C3: when an invocation of the loader from bytes (direct, or through     *)
(* the URL loader or an entry point) has returned or raised, no temporary  *)
(* file that a loader created still exists.                                *)
NoTemporaryFileRemains == pc = "done" => TempFiles(files) = {}

BoxDict(r) ==
    "box" :> [left |-> r.left, right |-> r.right, top |-> r.top,
              bottom |-> r.bottom]

ErrorDict(msg) == "error" :> msg

Responds(h, status, dict) ==
    /\ h.kind = "return"
    /\ h.val[1].status = status
    /\ h.val[1].json # None
    /\ DOMAIN h.val[1].json[1] = DOMAIN dict
    /\ \A k \in DOMAIN dict : h.val[1].json[1][k] = dict[k]

\* h is what _detect gave for the outcome out of find_biggest_face
ShapesResponse(out, h) ==
    /\ (out.kind = "return" /\ out.val # None)
           => Responds(h, 200, BoxDict(out.val[1]))
    /\ (out.kind = "return" /\ out.val = None)
           => Responds(h, 200, EmptyDict)
    /\ Raised(out, "InvalidImage")
           => Responds(h, 422, ErrorDict(<< "The image is invalid" >>))
    /\ Raised(out, "TooLarge")
           => Responds(h, 413,
                  ErrorDict(<< "Image is too large: ", "(" >>
                            \o DecimalStr(out.exc[1].dims[1]) \o << ",", " " >>
                            \o DecimalStr(out.exc[1].dims[2]) \o << ")" >>))

(* C4: _detect answers a box (L,T,R,B) with 200 and {"box": {"left": L,    *)
(* "right": R, "top": T, "bottom": B}}, no face with 200 and {},           *)
(* InvalidImage with 422 and {"error": "The image is invalid"}, TooLarge   *)
(* with dims (H, W) with 413 and {"error": "Image is too large: (H, W)"}.  *)
DetectShapesResponse ==
    /\ IsDone("_detect")
           => ShapesResponse(result.facade[1].outcome, result)
    /\ (IsDone("request") /\ result.view # None
        /\ result.view[1].facade # None)
           => ShapesResponse(result.view[1].facade[1].outcome, result.view[1])

DetectTooLargeWitness ==
    /\ IsDone("_detect")
    /\ Raised(result.facade[1].outcome, "TooLarge")
    /\ result.val[1].status = 413
    /\ result.val[1].json[1]["error"] =
           << "Image is too large: ", "(", "1", "0", "2", "5", ",", " ",
              "1", "0", "2", "4", ")" >>

DetectBoxWitness ==
    /\ IsDone("_detect")
    /\ result.facade[1].outcome.val = Some(Rect(0, 1, 2, 3))
    /\ result.val[1].status = 200

IsPost == IsDone("request") /\ call.args.path = RulePath
              /\ call.args.method = "POST"

UpsampleText(req) == IF req.args = None THEN << "0" >> ELSE req.args[1]

ViewResponds(status, msg) ==
    /\ result.view # None
    /\ result.view[1].facade = None
    /\ Responds(result.view[1], status, ErrorDict(msg))
    /\ result.response = result.view[1].val[1]

HandsToDetection(data, upsample) ==
    /\ result.view # None
    /\ result.view[1].validation.kind = "return"
    /\ result.view[1].facade # None
    /\ result.view[1].facade[1].kw.data = Some(data)
    /\ result.view[1].facade[1].upsample = upsample

\* the validation of C5 for a request whose data (the body as the handler
\* gets it) is data
Validates(data) ==
    IsPost =>
        LET req == call.args
            parsed == int(UpsampleText(req))
        IN  IF data.len = 0
            THEN ViewResponds(400,
                     << "No data found, make sure to set Content-Type" >>)
            ELSE IF parsed = None
            THEN ViewResponds(400,
                     << "Invalid numeric value for upsample argument" >>)
            ELSE IF parsed[1] < 0
            THEN ViewResponds(400,
                     << "Value for upsample argument must be nonnegative" >>)
            ELSE HandsToDetection(data, parsed[1])

ClientInputErrors ==
    { "ValueError", "FileNotFoundError", "TooLarge", "InvalidImage",
      "HTTPError" }

\* a client-input error occurred while the view handled the request
ClientInputErrorOccurred(v) ==
    \/ v.validation.kind = "raise"
    \/ /\ v.facade # None
       /\ v.facade[1].outcome.kind = "raise"
       /\ v.facade[1].outcome.exc[1].type \in ClientInputErrors

(* C6: every client-input error that occurs while POST                     *)
(* /detect_largest_face is handled becomes a 4xx JSON response of the      *)
(* handler; none leaves the handler as an exception or becomes a 500.      *)
ClientInputErrorsGet4xx ==
    (IsPost /\ result.view # None /\ ClientInputErrorOccurred(result.view[1]))
        => /\ result.view[1].kind = "return"
           /\ result.response = result.view[1].val[1]
           /\ result.response.status \in 400 .. 499
           /\ result.response.json # None
           /\ DOMAIN result.response.json[1] = { "error" }

ClientInputErrorWitness ==
    /\ IsPost
    /\ result.view # None
    /\ result.view[1].facade # None
    /\ Raised(result.view[1].facade[1].outcome, "TooLarge")
    /\ result.response.status = 413

(* C7: for every image and every bounding box with left <= right and       *)
(* top <= bottom that the detector can return for it, _crop, and so        *)
(* extract_biggest_face when a face is found, returns an array of shape    *)
(* (bottom-top) x (right-left) x 3.                                        *)
CropHasShapeOfBox ==
    /\ (IsDone("_crop") /\ call.args.rect \in Faces)
           => result.val[1].shape =
                  << call.args.rect.bottom - call.args.rect.top,
                     call.args.rect.right - call.args.rect.left, 3 >>
    /\ (IsDone("extract_biggest_face") /\ result.kind = "return"
        /\ result.val # None)
           => \E i \in DOMAIN result.detected[1] :
                  LET r == result.detected[1][i]
                  IN  result.val[1].shape =
                          << r.bottom - r.top, r.right - r.left, 3 >>

(* C8: when the image loads, passes the size guard and the detector        *)
(* returns no rectangle, find_biggest_face returns None and                *)
(* extract_biggest_face returns None; neither raises.                      *)
NoFaceIsNoneNotAnError ==
    (pc = "done" /\ call.op \in EntryPoints /\ result.detected = Some(<< >>))
        => result.kind = "return" /\ result.val = None

NoFaceWitness ==
    /\ IsDone("extract_biggest_face")
    /\ result.loaded = Some(Image(2000, 100))
    /\ result.detected = Some(<< >>)
    /\ result.val = None

InTrace(name) == \E i \in DOMAIN result.trace : result.trace[i] = name

FirstCall(name) == result.trace # << >> /\ result.trace[1] = name

(* C9: _load_image with no source fails with ValueError and runs no        *)
(* loader; otherwise it uses the first supplied source in the order        *)
(* bytes, decoded image, path, URL and reads no other: bytes go to a       *)
(* temporary file that is decoded, a decoded image is returned as it is    *)
(* with no call at all, a path is decoded where it is, a URL is fetched.   *)
LoadImageUsesFirstSupplied ==
    IsDone("_load_image") =>
        LET kw == call.args
        IN  IF kw.data # None
            THEN /\ FirstCall("mkstemp")
                 /\ ~InTrace("requests.get")
                 /\ result.kind = "return" => result.val = kw.data[1].decodes
            ELSE IF kw.image # None
            THEN result.kind = "return" /\ result.val = kw.image
                     /\ result.trace = << >>
            ELSE IF kw.path # None
            THEN /\ FirstCall("isfile")
                 /\ ~InTrace("requests.get") /\ ~InTrace("mkstemp")
                 /\ result.kind = "return"
                        => result.val = DiskFiles[kw.path[1]].decodes
            ELSE IF kw.url # None
            THEN FirstCall("requests.get")
            ELSE Raised(result, "ValueError") /\ result.trace = << >>

LoadImageAllSuppliedWitness ==
    /\ IsDone("_load_image")
    /\ call.args.data = Some(JpegOf(Image(1, 2)))
    /\ call.args.image = Some(Image(4, 4))
    /\ call.args.path # None
    /\ call.args.url # None
    /\ result.val = Some(Image(1, 2))

RespondsError(status, msg) ==
    /\ result.response.status = status
    /\ result.response.json # None
    /\ DOMAIN result.response.json[1] = { "error" }
    /\ result.response.json[1]["error"] = msg

OtherPathsAndFaults ==
    /\ (IsDone("request") /\ call.args.path # "/detect_largest_face")
           => RespondsError(404, << "Not found" >>)
    /\ (IsDone("request") /\ result.view # None
        /\ result.view[1].kind = "raise")
           => RespondsError(500, << "Internal server error" >>)

Count(tr, name) == Cardinality({ i \in DOMAIN tr : tr[i] = name })

\* no step of the calls tr is made twice
NoRetry(tr) ==
    \A name \in { "requests.get", "load_rgb_image", "detector", "mkstemp",
                  "write" } : Count(tr, name) <= 1

\* the call of a facade function that ended as out ran the detector only
\* as its last step, on an image that was loaded and passed the size guard
DetectsAfterGuard(out) ==
    /\ NoRetry(out.trace)
    /\ Count(out.trace, "detector") = 1
           => /\ out.loaded # None
              /\ out.loaded[1].shape[1] * out.loaded[1].shape[2]
                     <= _MAX_PIXELS
              /\ out.trace[Len(out.trace)] = "detector"
    /\ (out.kind = "raise" /\ out.exc[1].type \in ClientInputErrors)
           => Count(out.trace, "detector") = 0
    /\ out.loaded = None => Count(out.trace, "detector") = 0

(* C11: a call of find_biggest_face or extract_biggest_face, and the       *)
(* handling of a request, runs the detector at most once, and only as the  *)
(* last step after the image was loaded and passed the size guard (and,    *)
(* for a request, after the validation passed); a call that ends in a      *)
(* validation failure, ValueError, FileNotFoundError, InvalidImage,        *)
(* HTTPError or TooLarge runs no detector; no fetch, decode or detection   *)
(* is made twice.                                                          *)
DetectsAtMostOnceAfterGuards ==
    /\ (pc = "done" /\ call.op \in EntryPoints) => DetectsAfterGuard(result)
    /\ (IsDone("request") /\ result.view # None) =>
           LET v == result.view[1]
           IN  /\ NoRetry(v.trace)
               /\ v.validation.kind = "raise"
                      => v.facade = None /\ v.trace = << >>
               /\ v.facade # None
                      => /\ v.validation.kind = "return"
                         /\ v.trace = v.facade[1].outcome.trace
                         /\ DetectsAfterGuard(v.facade[1].outcome)
               /\ v.facade = None => Count(v.trace, "detector") = 0

DetectsOnceAfterFetchWitness ==
    /\ IsDone("find_biggest_face")
    /\ call.args.kw.data = None /\ call.args.kw.image = None
    /\ call.args.kw.path = None /\ call.args.kw.url # None
    /\ result.kind = "return"
    /\ result.trace = << "requests.get", "mkstemp", "write", "isfile",
                         "load_rgb_image", "remove", "detector" >>

====
